---- MODULE Spec2Model ----
(***************************************************************************)
(* netprobify dynamic inventory kube_svc_endpoints: the reconciler         *)
(* update_targets and the watch loop of start(), as a state machine.       *)
(*                                                                         *)
(* A Python dict is a function from its keys (strings) to its values, a    *)
(* Python list a sequence, a Python set a set.  An optional attribute      *)
(* (None or a value) is a sequence of length 0 or 1.                       *)
(***************************************************************************)
EXTENDS Integers, Sequences, FiniteSets, TLC

VARIABLES
    pc,          \* position of start(): see PcValues
    registered,  \* TRUE once targets[module_name] has been assigned (line 28)
    config,      \* the dict loaded from the configuration file (line 36)
    targets,     \* targets[module_name], the shared target list
    event,       \* the last event the watch delivered to the loop (line 110)
    call,        \* the last invocation of update_targets (line 138) and its outcome
    reconciled,  \* the list the last update_targets that returned has assigned
    last,        \* what the last step of start() was
    nEvents,     \* number of events delivered so far, over all watches
    desired,     \* per owner, the address set of its last EndpointSlice event
    failed,      \* TRUE once the processing of an event has raised
    existing,    \* the endpoint slices that exist in the cluster
    unlisted,    \* the existing slices the open watch has yet to list
    heap,        \* the list objects start() has created, in creation order
    slot,        \* the index in heap of the object bound to targets[module_name]
    held,        \* the index of the list object a reader has obtained, 0 for none
    work         \* the update_targets call in progress, when taken step by step

vars ==
    <<pc, registered, config, targets, event, call, reconciled, last, nEvents,
      desired, failed>>

\* the cluster behind the watch
cluster == <<existing, unlisted>>

\* the list objects, for a reader running beside start()
objects == <<heap, slot, held, work>>

allvars == <<vars, cluster, objects>>

(***************************************************************************)
(* Bounds of the model.                                                    *)
(***************************************************************************)
\* events delivered over the whole run, all watches together
MaxEvents == 2

(***************************************************************************)
(* Values.                                                                 *)
(***************************************************************************)
None == <<>>
Some(x) == <<x>>

\* str(x) of an optional string, as an f-string formats it
Str(opt) == IF opt = None THEN "None" ELSE opt[1]

Owners == {"svc-a", "svc-b"}
Addresses == {"10.0.0.1", "fe80::1", "bogus"}

\* ipaddress.ip_address(address).version; 0 stands for the ValueError it raises
IpVersion(address) ==
    CASE address \in {"10.0.0.1", "192.0.2.9"} -> 4
      [] address \in {"fe80::1"} -> 6
      [] OTHER -> 0

PcValues ==
    {"start", "connecting", "streaming", "backoff",
     "returned", "fatal", "stopped", "interrupted"}

(***************************************************************************)
(* Configuration files.                                                    *)
(***************************************************************************)
\* target_options overlays
OptGroups == [k \in {"groups"} |-> <<"probes">>]
OptPort ==
    [k \in {"groups", "dst_port", "threshold"} |->
        CASE k = "groups" -> <<"probes">>
          [] k = "dst_port" -> 8443
          [] OTHER -> 5]
OptDestination ==
    [k \in {"groups", "destination"} |->
        IF k = "groups" THEN <<"probes">> ELSE "192.0.2.9"]
OptOwner ==
    [k \in {"groups", "owner"} |->
        IF k = "groups" THEN <<"probes">> ELSE "static"]
OptNoGroups == [k \in {"threshold"} |-> 5]
OptEmptyGroups == [k \in {"groups"} |-> <<>>]
OptEmpty == [k \in {} |-> 0]

Conf(ns, svc, port, opts) ==
    [namespace |-> ns, service_name |-> svc, dst_port |-> port, target_options |-> opts]

\* configurations that pass the checks of lines 38-43
ValidConfigs ==
    {Conf("default", "web", 80, o) : o \in {OptGroups, OptPort, OptDestination, OptOwner}}

\* configurations lines 38-43 reject; "" and 0 also stand for an absent key
\* (config.get returns None, which is as falsy)
InvalidConfigs ==
    {Conf("", "web", 80, OptGroups), Conf("default", "", 80, OptGroups),
     Conf("default", "web", 0, OptGroups), Conf("default", "web", 80, OptEmpty),
     Conf("default", "web", 80, OptNoGroups), Conf("default", "web", 80, OptEmptyGroups)}

NoConfig == Conf("", "", 0, OptEmpty)

\* the configuration file: None when it does not exist
ConfigFiles == {None} \cup {Some(c) : c \in ValidConfigs \cup InvalidConfigs}

(***************************************************************************)
(* Events of the watch (lines 110-134).                                    *)
(***************************************************************************)
\* endpoint.conditions: the three flags the loop reads (line 129); a flag
\* that is None is falsy there, as FALSE is
Conditions == [ready : BOOLEAN, serving : BOOLEAN, terminating : BOOLEAN]

Endpoint(cond, addrs, ref, node) ==
    [conditions |-> cond, addresses |-> addrs, target_ref |-> ref, node_name |-> node]

\* endpoint.addresses: a list
AddressLists ==
    {<<a>> : a \in Addresses} \cup {<<"10.0.0.1", "fe80::1">>}

PodNames == {"pod-a", "pod-b"}
TargetRefs == {None} \cup {Some(p) : p \in PodNames}
NodeNames == {None, Some("node-1")}

\* every endpoint the model draws
AllEndpoints ==
    {Endpoint(c, a, r, n) : c \in Conditions, a \in AddressLists,
                            r \in {None, Some("pod-a")}, n \in NodeNames}

Serving == [ready |-> TRUE, serving |-> TRUE, terminating |-> FALSE]
Terminating == [ready |-> TRUE, serving |-> TRUE, terminating |-> TRUE]

\* the endpoints of the events of the long-running loop
LoopEndpoints ==
    {Endpoint(Serving, a, r, Some("node-1")) : a \in AddressLists, r \in TargetRefs}
    \cup {Endpoint(Terminating, <<"10.0.0.1">>, Some("pod-a"), Some("node-1")),
          Endpoint(Serving, <<"fe80::1", "bogus">>, Some("pod-a"), Some("node-1"))}

EventTypes == {"ADDED", "MODIFIED", "DELETED"}

\* an event of the stream: is_dict is FALSE for an event that is no dict
\* (line 111); kind, name, endpoints are the fields of event['object']
Event(isDict, type, kind, name, endpoints) ==
    [is_dict |-> isDict, type |-> type, kind |-> kind, name |-> name,
     endpoints |-> endpoints]

NoEvent == Event(FALSE, "", "", "", <<>>)

MalformedEvents ==
    {Event(FALSE, "ERROR", "Status", "", <<>>),
     Event(TRUE, "ERROR", "Status", "", <<>>)}

SliceEvents(types, lists) ==
    {Event(TRUE, t, "EndpointSlice", o, l) : t \in types, o \in Owners, l \in lists}

\* the events of a single delivery: up to two endpoints of any shape
AllEvents ==
    MalformedEvents \cup
    SliceEvents(EventTypes,
                {<<>>} \cup {<<m>> : m \in AllEndpoints}
                       \cup {<<m1, m2>> : m1 \in AllEndpoints, m2 \in AllEndpoints})

\* the events of the long-running loop: at most one endpoint
LoopEvents ==
    MalformedEvents
    \cup SliceEvents({"MODIFIED"}, {<<>>} \cup {<<m>> : m \in LoopEndpoints})
    \cup SliceEvents({"DELETED"},
            {<<>>, <<Endpoint(Serving, <<"10.0.0.1">>, Some("pod-a"), Some("node-1"))>>})

\* line 129 without its test of conditions.serving
TakesRequestsIgnoringServing(endpoint) ==
    ~(endpoint.conditions.terminating \/ ~endpoint.conditions.ready)

\* line 129, negated: the endpoint takes requests
TakesRequests(endpoint) ==
    ~(endpoint.conditions.terminating \/ ~endpoint.conditions.ready
        \/ ~endpoint.conditions.serving)

Range(seq) == {seq[i] : i \in DOMAIN seq}

\* lines 123-134: the address set the loop builds from the event
RECURSIVE EndpointAddresses(_)
EndpointAddresses(endpoints) ==
    IF endpoints = <<>> THEN {}
    ELSE LET endpoint == Head(endpoints)
         IN  (IF TakesRequests(endpoint) THEN Range(endpoint.addresses) ELSE {})
                 \cup EndpointAddresses(Tail(endpoints))

\* a loop that forgets the test of line 125
EventAddressesIgnoringType(e) ==
    EndpointAddresses(e.endpoints)

EventAddresses(e) ==
    IF e.type # "DELETED" THEN EndpointAddresses(e.endpoints) ELSE {}

\* line 133: the label of one endpoint
HostnameLabel(endpoint) ==
    endpoint.target_ref[1] \o " / " \o Str(endpoint.node_name)

\* lines 124-134: the hostname map; a later endpoint overwrites an earlier one
RECURSIVE EndpointHostnames(_, _)
EndpointHostnames(endpoints, acc) ==
    IF endpoints = <<>> THEN acc
    ELSE LET endpoint == Head(endpoints)
             seen == IF TakesRequests(endpoint) THEN Range(endpoint.addresses) ELSE {}
             next == [a \in DOMAIN acc \cup seen |->
                        IF a \in seen THEN HostnameLabel(endpoint) ELSE acc[a]]
         IN  EndpointHostnames(Tail(endpoints), next)

EmptyMap == [a \in {} |-> ""]

EventHostnames(e) ==
    IF e.type # "DELETED" THEN EndpointHostnames(e.endpoints, EmptyMap) ELSE EmptyMap

\* line 133 raises AttributeError: endpoint.target_ref is None and .name is read,
\* once per address of an endpoint that takes requests
ExtractionRaises(e) ==
    /\ e.type # "DELETED"
    /\ \E i \in DOMAIN e.endpoints :
          /\ TakesRequests(e.endpoints[i])
          /\ e.endpoints[i].addresses # <<>>
          /\ e.endpoints[i].target_ref = None

(***************************************************************************)
(* update_targets (lines 58-102).                                          *)
(***************************************************************************)
\* line 68 dropping every target of the owner, to build them all again
RetainedOtherOwners(tgs, owner, addresses) ==
    SelectSeq(tgs, LAMBDA target : target["owner"] # owner)

\* line 68: the targets kept
RetainedTargets(tgs, owner, addresses) ==
    SelectSeq(tgs, LAMBDA target :
        target["owner"] # owner \/ target["destination"] \in addresses)

\* line 71: the addresses already registered for the owner
KnownAddresses(updated, owner) ==
    {updated[i]["destination"] : i \in {j \in DOMAIN updated : updated[j]["owner"] = owner}}

\* lines 92-94: target |= config["target_options"]
Overlay(target, cfg) ==
    IF DOMAIN cfg.target_options # {}
    THEN [k \in DOMAIN target \cup DOMAIN cfg.target_options |->
            IF k \in DOMAIN cfg.target_options THEN cfg.target_options[k] ELSE target[k]]
    ELSE target

\* hostname_map.get(address, address), line 88
HostnameOf(hostname_map, address) ==
    IF address \in DOMAIN hostname_map THEN hostname_map[address] ELSE address

\* lines 80-89: the target dict before the overrides
GeneratedTarget(cfg, owner, address, hostname_map) ==
    [description |-> owner \o " - " \o address,
     type |-> "TCPsyn",
     destination |-> address,
     address_family |-> "ipv" \o (IF IpVersion(address) = 4 THEN "4" ELSE "6"),
     is_subnet |-> FALSE,
     dst_port |-> cfg.dst_port,
     owner |-> owner,
     hostname |-> HostnameOf(hostname_map, address)]

\* lines 79-94: the target appended for a new address
NewTarget(cfg, owner, address, hostname_map) ==
    Overlay(GeneratedTarget(cfg, owner, address, hostname_map), cfg)

\* lines 73-76: the addresses the loop builds a target for
NewAddresses(tgs, owner, addresses) ==
    addresses \ KnownAddresses(RetainedTargets(tgs, owner, addresses), owner)

\* an ip_address that accepts every string
UpdateNeverRaises(tgs, owner, addresses) ==
    FALSE

\* line 79 raises ValueError for one of the new addresses; nothing was assigned
\* to targets[module_name] yet (line 102 is not reached)
UpdateRaises(tgs, owner, addresses) ==
    \E a \in NewAddresses(tgs, owner, addresses) : IpVersion(a) = 0

\* the orders in which `for address in addresses` can visit a set (line 73):
\* the iteration order of a Python set of strings is not fixed
Orders(S) ==
    {q \in [1..Cardinality(S) -> S] : \A a \in S : \E i \in DOMAIN q : q[i] = a}

\* lines 67-102 putting the new targets in front of the retained ones
UpdatedTargetsPrepending(tgs, cfg, owner, addresses, hostname_map) ==
    {[i \in DOMAIN q |-> NewTarget(cfg, owner, q[i], hostname_map)] \o
        RetainedTargets(tgs, owner, addresses) :
     q \in Orders(NewAddresses(tgs, owner, addresses))}

\* lines 67-102: the lists update_targets can assign to targets[module_name]
UpdatedTargets(tgs, cfg, owner, addresses, hostname_map) ==
    {RetainedTargets(tgs, owner, addresses) \o
        [i \in DOMAIN q |-> NewTarget(cfg, owner, q[i], hostname_map)] :
     q \in Orders(NewAddresses(tgs, owner, addresses))}

NoCall == [owner |-> "", addresses |-> {}, hostname_map |-> EmptyMap,
           before |-> <<>>, outcome |-> "none"]

Call(owner, addresses, hostname_map, before, outcome) ==
    [owner |-> owner, addresses |-> addresses, hostname_map |-> hostname_map,
     before |-> before, outcome |-> outcome]

(***************************************************************************)
(* start(): set-up (lines 24-55).                                          *)
(***************************************************************************)
\* lines 38-40: a required key is missing or falsy
MissingRequiredKey(cfg) ==
    \/ cfg.namespace = ""
    \/ cfg.service_name = ""
    \/ cfg.dst_port = 0
    \/ DOMAIN cfg.target_options = {}

\* line 42 testing only that the groups key is there
NoGroupsKey(cfg) ==
    "groups" \notin DOMAIN cfg.target_options

\* line 42: len(config["target_options"].get('groups', [])) == 0
NoGroups(cfg) ==
    \/ "groups" \notin DOMAIN cfg.target_options
    \/ Len(cfg.target_options["groups"]) = 0

NoWork ==
    [active |-> FALSE, id |-> 0, owner |-> "", addresses |-> {}, known |-> {},
     pending |-> {}, hostname_map |-> EmptyMap]

\* no cluster and no reader: the specifications of start() alone
Alone ==
    /\ existing = {}
    /\ unlisted = {}
    /\ heap = <<>>
    /\ slot = 0
    /\ held = 0
    /\ work = NoWork

Init ==
    /\ pc = "start"
    /\ registered = FALSE
    /\ config = NoConfig
    /\ targets = <<>>
    /\ event = NoEvent
    /\ call = NoCall
    /\ reconciled = <<>>
    /\ last = "init"
    /\ nEvents = 0
    /\ desired = [o \in Owners |-> {}]
    /\ failed = FALSE
    /\ Alone

\* lines 24-55, up to the entry of the main loop.  file is the configuration
\* file, inCluster and kubeConfig tell whether load_incluster_config and
\* load_kube_config succeed
Start(file, inCluster, kubeConfig) ==
    /\ pc = "start"
    /\ registered' = TRUE
    /\ targets' = <<>>
    /\ IF file = None
       THEN /\ pc' = "returned"
            /\ last' = "no_file"
            /\ UNCHANGED config
       ELSE /\ config' = file[1]
            /\ IF MissingRequiredKey(file[1]) \/ NoGroups(file[1])
               THEN pc' = "fatal" /\ last' = "bad_config"
               ELSE IF ~inCluster /\ ~kubeConfig
                    THEN pc' = "returned" /\ last' = "no_credentials"
                    ELSE pc' = "connecting" /\ last' = "configured"
    /\ reconciled' = <<>>
    /\ UNCHANGED <<event, call, nEvents, desired, failed>>

(***************************************************************************)
(* start(): the main loop (lines 106-146).                                 *)
(***************************************************************************)
\* lines 108-110: the watch is opened and the stream starts
OpenWatch ==
    /\ pc = "connecting"
    /\ pc' = "streaming"
    /\ last' = "opened"
    /\ UNCHANGED <<registered, config, targets, event, call, reconciled, nEvents, desired, failed>>

\* lines 108-110 raise (not KeyboardInterrupt): line 142, then line 146
OpenFails ==
    /\ pc = "connecting"
    /\ pc' = "backoff"
    /\ last' = "open_failed"
    /\ UNCHANGED <<registered, config, targets, event, call, reconciled, nEvents, desired, failed>>

\* lines 111-118 without the test of the object kind
DiscardedIgnoringKind(e) ==
    ~e.is_dict

\* lines 111-118: the event is not a dict, or not an EndpointSlice
Discarded(e) ==
    ~e.is_dict \/ e.kind # "EndpointSlice"

\* lines 110-138: one iteration of the for loop on event e
Receive(e) ==
    /\ pc = "streaming"
    /\ nEvents < MaxEvents
    /\ nEvents' = nEvents + 1
    /\ event' = e
    /\ UNCHANGED <<registered, config>>
    /\ \/ /\ Discarded(e)
          /\ pc' = "streaming"
          /\ last' = "discarded"
          /\ UNCHANGED <<targets, call, reconciled, desired, failed>>
       \/ /\ ~Discarded(e)
          /\ ExtractionRaises(e)
          /\ pc' = "backoff"
          /\ last' = "event_failed"
          /\ desired' = [desired EXCEPT ![e.name] = EventAddresses(e)]
          /\ failed' = TRUE
          /\ UNCHANGED <<targets, call, reconciled>>
       \/ /\ ~Discarded(e)
          /\ ~ExtractionRaises(e)
          /\ UpdateRaises(targets, e.name, EventAddresses(e))
          /\ pc' = "backoff"
          /\ last' = "update_failed"
          /\ call' = Call(e.name, EventAddresses(e), EventHostnames(e), targets, "raised")
          /\ desired' = [desired EXCEPT ![e.name] = EventAddresses(e)]
          /\ failed' = TRUE
          /\ UNCHANGED <<targets, reconciled>>
       \/ /\ ~Discarded(e)
          /\ ~ExtractionRaises(e)
          /\ ~UpdateRaises(targets, e.name, EventAddresses(e))
          /\ targets' \in UpdatedTargets(targets, config, e.name,
                                          EventAddresses(e), EventHostnames(e))
          /\ reconciled' = targets'
          /\ pc' = "streaming"
          /\ last' = "reconciled"
          /\ call' = Call(e.name, EventAddresses(e), EventHostnames(e), targets, "returned")
          /\ desired' = [desired EXCEPT ![e.name] = EventAddresses(e)]
          /\ UNCHANGED failed

\* an except clause that resets the list when the stream fails
StreamRaisesClearing ==
    /\ pc = "streaming"
    /\ pc' = "backoff"
    /\ last' = "stream_failed"
    /\ targets' = <<>>
    /\ UNCHANGED <<registered, config, event, call, reconciled, nEvents, desired, failed>>

\* the stream raises an exception other than KeyboardInterrupt: line 142, then 146
StreamRaises ==
    /\ pc = "streaming"
    /\ pc' = "backoff"
    /\ last' = "stream_failed"
    /\ UNCHANGED <<registered, config, targets, event, call, reconciled, nEvents, desired, failed>>

\* an else clause that leaves the loop when the stream ends
StreamEndsBreaking ==
    /\ pc = "streaming"
    /\ pc' = "stopped"
    /\ last' = "stream_ended"
    /\ UNCHANGED <<registered, config, targets, event, call, reconciled, nEvents, desired, failed>>

\* the stream ends without an exception: the else clause, line 144, then 146
StreamEnds ==
    /\ pc = "streaming"
    /\ pc' = "backoff"
    /\ last' = "stream_ended"
    /\ UNCHANGED <<registered, config, targets, event, call, reconciled, nEvents, desired, failed>>

\* KeyboardInterrupt inside the try statement: lines 140-141, break
Interrupt ==
    /\ pc \in {"connecting", "streaming"}
    /\ pc' = "stopped"
    /\ last' = "interrupt"
    /\ UNCHANGED <<registered, config, targets, event, call, reconciled, nEvents, desired, failed>>

\* sleep(10) returns (line 146): back to the top of the while loop
Sleep ==
    /\ pc = "backoff"
    /\ pc' = "connecting"
    /\ last' = "slept"
    /\ UNCHANGED <<registered, config, targets, event, call, reconciled, nEvents, desired, failed>>

\* KeyboardInterrupt during sleep(10), line 146: outside the try statement,
\* so it propagates out of start()
InterruptSleep ==
    /\ pc = "backoff"
    /\ pc' = "interrupted"
    /\ last' = "interrupt"
    /\ UNCHANGED <<registered, config, targets, event, call, reconciled, nEvents, desired, failed>>

Next ==
    \/ /\ \E file \in ConfigFiles, inCluster \in BOOLEAN, kubeConfig \in BOOLEAN :
             Start(file, inCluster, kubeConfig)
       /\ UNCHANGED <<cluster, objects>>
    \/ OpenWatch /\ UNCHANGED <<cluster, objects>>
    \/ OpenFails /\ UNCHANGED <<cluster, objects>>
    \/ /\ \E e \in LoopEvents : Receive(e)
       /\ UNCHANGED <<cluster, objects>>
    \/ StreamRaises /\ UNCHANGED <<cluster, objects>>
    \/ StreamEnds /\ UNCHANGED <<cluster, objects>>
    \/ Interrupt /\ UNCHANGED <<cluster, objects>>
    \/ Sleep /\ UNCHANGED <<cluster, objects>>
    \/ InterruptSleep /\ UNCHANGED <<cluster, objects>>

Spec == Init /\ [][Next]_allvars

(***************************************************************************)
(* One delivery: the first event of a watch just opened, drawn from        *)
(* AllEvents.                                                              *)
(***************************************************************************)
InitEvent ==
    /\ pc = "streaming"
    /\ registered = TRUE
    /\ config \in ValidConfigs
    /\ targets = <<>>
    /\ event = NoEvent
    /\ call = NoCall
    /\ reconciled = <<>>
    /\ last = "opened"
    /\ nEvents = 0
    /\ desired = [o \in Owners |-> {}]
    /\ failed = FALSE
    /\ Alone

FirstEvent ==
    /\ nEvents = 0
    /\ \E e \in AllEvents : Receive(e)
    /\ UNCHANGED <<cluster, objects>>

SpecEvent == InitEvent /\ [][FirstEvent]_allvars

(***************************************************************************)
(* The loop of a configured start() against a cluster whose endpoint       *)
(* slices come and go.  The stream of line 110 first lists the slices that *)
(* exist when the watch opens, as ADDED events, then reports each change   *)
(* as it happens; a change made while no watch is open is reported to      *)
(* nobody.                                                                 *)
(***************************************************************************)
\* the one serving endpoint of the slice of an owner
SliceOf(o) ==
    <<Endpoint([ready |-> TRUE, serving |-> TRUE, terminating |-> FALSE],
               <<IF o = "svc-a" THEN "10.0.0.1" ELSE "fe80::1">>,
               Some("pod-a"), Some("node-1"))>>

AddedEvent(o) == Event(TRUE, "ADDED", "EndpointSlice", o, SliceOf(o))

DeletedEvent(o) == Event(TRUE, "DELETED", "EndpointSlice", o, SliceOf(o))

\* configurations whose overlay has no destination and no owner key
PlainConfigs ==
    {Conf("default", "web", 80, o) : o \in {OptGroups, OptPort}}

InitResync ==
    /\ pc = "connecting"
    /\ registered = TRUE
    /\ config \in PlainConfigs
    /\ targets = <<>>
    /\ event = NoEvent
    /\ call = NoCall
    /\ reconciled = <<>>
    /\ last = "configured"
    /\ nEvents = 0
    /\ desired = [o \in Owners |-> {}]
    /\ failed = FALSE
    /\ existing \in SUBSET Owners
    /\ unlisted = {}
    /\ heap = <<>>
    /\ slot = 0
    /\ held = 0
    /\ work = NoWork

\* lines 108-110: the watch opens and will list the slices that exist now
OpenListing ==
    /\ OpenWatch
    /\ unlisted' = existing
    /\ UNCHANGED existing

\* line 110: the stream yields the ADDED event of a slice it has yet to list
Listed(o) ==
    /\ o \in unlisted
    /\ Receive(AddedEvent(o))
    /\ unlisted' = unlisted \ {o}
    /\ UNCHANGED existing

\* a slice is created while the watch is open: line 110 yields its ADDED event
CreatedWatched(o) ==
    /\ o \notin existing
    /\ existing' = existing \cup {o}
    /\ Receive(AddedEvent(o))
    /\ UNCHANGED unlisted

\* a slice is deleted while the watch is open: line 110 yields its DELETED event
DeletedWatched(o) ==
    /\ o \in existing
    /\ existing' = existing \ {o}
    /\ unlisted' = unlisted \ {o}
    /\ Receive(DeletedEvent(o))

\* a slice is created while start() has no open watch (line 146, or between
\* iterations): no event
CreatedUnwatched(o) ==
    /\ pc \in {"connecting", "backoff"}
    /\ o \notin existing
    /\ existing' = existing \cup {o}
    /\ UNCHANGED <<vars, unlisted>>

\* a slice is deleted while start() has no open watch: no event
DeletedUnwatched(o) ==
    /\ pc \in {"connecting", "backoff"}
    /\ o \in existing
    /\ existing' = existing \ {o}
    /\ UNCHANGED <<vars, unlisted>>

NextResync ==
    \/ OpenListing /\ UNCHANGED objects
    \/ OpenFails /\ UNCHANGED <<cluster, objects>>
    \/ \E o \in Owners : Listed(o) /\ UNCHANGED objects
    \/ \E o \in Owners : CreatedWatched(o) /\ UNCHANGED objects
    \/ \E o \in Owners : DeletedWatched(o) /\ UNCHANGED objects
    \/ \E o \in Owners : CreatedUnwatched(o) /\ UNCHANGED objects
    \/ \E o \in Owners : DeletedUnwatched(o) /\ UNCHANGED objects
    \/ StreamRaises /\ UNCHANGED <<cluster, objects>>
    \/ StreamEnds /\ UNCHANGED <<cluster, objects>>
    \/ Interrupt /\ UNCHANGED <<cluster, objects>>
    \/ Sleep /\ UNCHANGED <<cluster, objects>>
    \/ InterruptSleep /\ UNCHANGED <<cluster, objects>>

SpecResync == InitResync /\ [][NextResync]_allvars

(***************************************************************************)
(* update_targets taken line by line, beside a reader of the registry.     *)
(* heap holds the list objects in creation order: the list of line 28,     *)
(* then one updated_targets per call.  slot is the object bound to         *)
(* targets[module_name]; the reader obtains that object and keeps it.      *)
(***************************************************************************)
\* one configuration with a plain overlay, one whose overlay sets the owner
ReaderConfigs ==
    {Conf("default", "web", 80, o) : o \in {OptGroups, OptOwner}}

InitReader ==
    /\ pc = "streaming"
    /\ registered = TRUE
    /\ config \in ReaderConfigs
    /\ targets = <<>>
    /\ event = NoEvent
    /\ call = NoCall
    /\ reconciled = <<>>
    /\ last = "opened"
    /\ nEvents = 0
    /\ desired = [o \in Owners |-> {}]
    /\ failed = FALSE
    /\ existing = {}
    /\ unlisted = {}
    /\ heap = << <<>> >>
    /\ slot = 1
    /\ held = 0
    /\ work = NoWork

\* lines 111-134 skip the event or raise: update_targets is not called
NotUpdating(e) ==
    /\ ~work.active
    /\ Discarded(e) \/ ExtractionRaises(e)
    /\ Receive(e)
    /\ UNCHANGED objects

\* line 68 filtering the list of the registry where it is
BeginUpdateInPlace(e) ==
    /\ pc = "streaming"
    /\ ~work.active
    /\ nEvents < MaxEvents
    /\ ~Discarded(e)
    /\ ~ExtractionRaises(e)
    /\ nEvents' = nEvents + 1
    /\ event' = e
    /\ heap' = [heap EXCEPT ![slot] = RetainedTargets(heap[slot], e.name, EventAddresses(e))]
    /\ work' = [active |-> TRUE, id |-> slot, owner |-> e.name,
                addresses |-> EventAddresses(e),
                known |-> KnownAddresses(heap'[slot], e.name),
                pending |-> EventAddresses(e), hostname_map |-> EventHostnames(e)]
    /\ last' = "update_begun"
    /\ UNCHANGED <<pc, registered, config, targets, call, reconciled, desired, failed,
                   slot, held>>

\* lines 110-138, 68 and 71: an event reaches update_targets, which builds a
\* new list object from the targets it keeps
BeginUpdate(e) ==
    /\ pc = "streaming"
    /\ ~work.active
    /\ nEvents < MaxEvents
    /\ ~Discarded(e)
    /\ ~ExtractionRaises(e)
    /\ nEvents' = nEvents + 1
    /\ event' = e
    /\ heap' = Append(heap, RetainedTargets(heap[slot], e.name, EventAddresses(e)))
    /\ work' = [active |-> TRUE, id |-> Len(heap) + 1, owner |-> e.name,
                addresses |-> EventAddresses(e),
                known |-> KnownAddresses(heap'[Len(heap) + 1], e.name),
                pending |-> EventAddresses(e), hostname_map |-> EventHostnames(e)]
    /\ last' = "update_begun"
    /\ UNCHANGED <<pc, registered, config, targets, call, reconciled, desired, failed,
                   slot, held>>

\* lines 73-98: one iteration of `for address in addresses`
Visit(a) ==
    /\ work.active
    /\ a \in work.pending
    /\ UNCHANGED <<registered, config, targets, event, reconciled, nEvents, slot, held>>
    /\ \/ /\ a \in work.known
          /\ work' = [work EXCEPT !.pending = @ \ {a}]
          /\ UNCHANGED <<pc, last, call, desired, failed, heap>>
       \/ /\ a \notin work.known
          /\ IpVersion(a) = 0
          /\ work' = NoWork
          /\ pc' = "backoff"
          /\ last' = "update_failed"
          /\ call' = Call(work.owner, work.addresses, work.hostname_map, heap[slot], "raised")
          /\ desired' = [desired EXCEPT ![work.owner] = work.addresses]
          /\ failed' = TRUE
          /\ UNCHANGED heap
       \/ /\ a \notin work.known
          /\ IpVersion(a) # 0
          /\ heap' = [heap EXCEPT ![work.id] =
                        Append(@, NewTarget(config, work.owner, a, work.hostname_map))]
          /\ work' = [work EXCEPT !.pending = @ \ {a}]
          /\ UNCHANGED <<pc, last, call, desired, failed>>

\* line 102: targets[module_name] = updated_targets
Publish ==
    /\ work.active
    /\ work.pending = {}
    /\ slot' = work.id
    /\ targets' = heap[work.id]
    /\ reconciled' = targets'
    /\ last' = "reconciled"
    /\ call' = Call(work.owner, work.addresses, work.hostname_map, heap[slot], "returned")
    /\ desired' = [desired EXCEPT ![work.owner] = work.addresses]
    /\ work' = NoWork
    /\ UNCHANGED <<pc, registered, config, event, nEvents, failed, heap, held>>

\* the reader evaluates targets[module_name] and keeps the object
ReaderGets ==
    /\ held # slot
    /\ held' = slot
    /\ UNCHANGED <<vars, cluster, heap, slot, work>>

\* lines 140-141 while update_targets runs or between events
InterruptUpdate ==
    /\ Interrupt
    /\ work' = NoWork
    /\ UNCHANGED <<cluster, heap, slot, held>>

NextReader ==
    \/ \E e \in LoopEvents : NotUpdating(e) /\ UNCHANGED cluster
    \/ \E e \in LoopEvents : BeginUpdate(e) /\ UNCHANGED cluster
    \/ \E a \in Addresses : Visit(a) /\ UNCHANGED cluster
    \/ Publish /\ UNCHANGED cluster
    \/ ReaderGets
    \/ InterruptUpdate
    \/ Sleep /\ UNCHANGED <<cluster, objects>>
    \/ OpenWatch /\ UNCHANGED <<cluster, objects>>

SpecReader == InitReader /\ [][NextReader]_allvars

(***************************************************************************)
(* Properties.                                                             *)
(***************************************************************************)
OwnerDestinations(tgs, owner) ==
    {tgs[i]["destination"] : i \in {j \in DOMAIN tgs : tgs[j]["owner"] = owner}}

OtherOwners(tgs, owner) ==
    SelectSeq(tgs, LAMBDA target : target["owner"] # owner)

\* the positions of the targets the last call appended
AppendedPositions ==
    (Len(RetainedTargets(call.before, call.owner, call.addresses)) + 1) .. Len(targets)

\* the overlay overrides neither identity field
IdentityKept ==
    DOMAIN config.target_options \cap {"destination", "owner"} = {}

\* C1: after update_targets(owner, addresses, hostname_map) returns, the
\* destinations of the targets of the list whose owner is `owner` are exactly
\* `addresses`.
C1_OwnerMatchesAddresses ==
    last = "reconciled" =>
        OwnerDestinations(targets, call.owner) = call.addresses

\* C2: no two targets of the shared list have the same (owner, destination).
C2_NoDuplicatePair ==
    \A i \in DOMAIN targets, j \in DOMAIN targets :
        i # j => ~(/\ targets[i]["owner"] = targets[j]["owner"]
                   /\ targets[i]["destination"] = targets[j]["destination"])

\* C3: reconciling owner A leaves the sub-list of the targets of the owners
\* other than A as it was before the call.
C3_OtherOwnersUntouched ==
    last = "reconciled" =>
        OtherOwners(targets, call.owner) = OtherOwners(call.before, call.owner)

\* C4: a DELETED event for owner A is reconciled with the empty address set,
\* whatever endpoints its object carries; it never fails, the list then holds
\* no target of owner A, and it is the former list without A's targets (no
\* target was added).
C4_DeletedRemovesOwner ==
    /\ (last = "reconciled" /\ event.type = "DELETED") =>
          /\ call.owner = event.name
          /\ call.addresses = {}
          /\ OwnerDestinations(targets, event.name) = {}
          /\ targets = OtherOwners(call.before, event.name)
    /\ last \in {"event_failed", "update_failed"} => event.type # "DELETED"

\* C4, its case: a DELETED event that carries a serving endpoint has removed
\* targets of its owner
C4_Witness ==
    /\ last = "reconciled"
    /\ event.type = "DELETED"
    /\ event.endpoints # <<>>
    /\ OwnerDestinations(call.before, event.name) # {}
    /\ Len(targets) < Len(call.before)

\* C5: a second update_targets with the same owner and the same address set,
\* right after one that returned, leaves the list as it is.
C5_SecondCallChangesNothing ==
    [][(/\ call.outcome = "returned"
        /\ targets = reconciled
        /\ nEvents' = nEvents + 1
        /\ last' = "reconciled"
        /\ call'.owner = call.owner
        /\ call'.addresses = call.addresses)
       => targets' = targets]_vars

\* C6: every appended target carries the overlay's value for each overlay key
\* other than destination and owner, and its destination and owner are the
\* address and the owner being reconciled.
C6_OverlayKeepsIdentity ==
    last = "reconciled" =>
        /\ \A i \in AppendedPositions :
              /\ \A k \in DOMAIN config.target_options \ {"destination", "owner"} :
                    targets[i][k] = config.target_options[k]
              /\ targets[i]["owner"] = call.owner
        /\ {targets[i]["destination"] : i \in AppendedPositions}
              = NewAddresses(call.before, call.owner, call.addresses)

\* C1, C2, C3, C6 where the overlay has no destination and no owner key
ContractWithoutIdentityOverride ==
    IdentityKept =>
        /\ C1_OwnerMatchesAddresses
        /\ C2_NoDuplicatePair
        /\ C3_OtherOwnersUntouched
        /\ C6_OverlayKeepsIdentity

\* C5 where the overlay has no destination and no owner key
IdempotentWithoutIdentityOverride ==
    [][(/\ IdentityKept
        /\ call.outcome = "returned"
        /\ targets = reconciled
        /\ nEvents' = nEvents + 1
        /\ last' = "reconciled"
        /\ call'.owner = call.owner
        /\ call'.addresses = call.addresses)
       => targets' = targets]_vars

\* the endpoints of the last event that are ready, serving and not terminating
IncludedEndpoints ==
    {i \in DOMAIN event.endpoints :
        /\ event.endpoints[i].conditions.ready
        /\ event.endpoints[i].conditions.serving
        /\ ~event.endpoints[i].conditions.terminating}

\* C7: for a created/modified event, the address set passed to update_targets
\* is the union of the addresses of the endpoints that are ready, serving and
\* not terminating.
C7_AddressesOfServingEndpoints ==
    (call.outcome # "none" /\ event.type # "DELETED") =>
        /\ call.owner = event.name
        /\ call.addresses =
              {a \in Addresses :
                  \E i \in IncludedEndpoints : a \in Range(event.endpoints[i].addresses)}

\* C7, its case: endpoint 1 serves 10.0.0.1, endpoint 2 is not ready and lists
\* fe80::1; the address set passed is {10.0.0.1}
C7_Witness ==
    /\ last = "reconciled"
    /\ event.type = "MODIFIED"
    /\ Len(event.endpoints) = 2
    /\ IncludedEndpoints = {1}
    /\ event.endpoints[1].addresses = <<"10.0.0.1">>
    /\ ~event.endpoints[2].conditions.ready
    /\ event.endpoints[2].addresses = <<"fe80::1">>
    /\ call.addresses = {"10.0.0.1"}

\* C8: a created/modified event is processed without error also when an
\* included endpoint has no workload reference; each address passed to
\* update_targets is mapped to the label built from the workload reference
\* name and the node name of an included endpoint that lists it, or, when only
\* endpoints without workload reference list it, is left out of the hostname
\* map, so that line 88 gives its target the raw address as hostname.
C8_HostnameLabels ==
    (event.is_dict /\ event.kind = "EndpointSlice" /\ event.type # "DELETED") =>
        /\ last # "event_failed"
        /\ last \in {"reconciled", "update_failed"} =>
              \A a \in call.addresses :
                 \/ \E i \in IncludedEndpoints :
                       /\ a \in Range(event.endpoints[i].addresses)
                       /\ event.endpoints[i].target_ref # None
                       /\ call.hostname_map[a] =
                             event.endpoints[i].target_ref[1] \o " / "
                                \o Str(event.endpoints[i].node_name)
                 \/ /\ \A i \in IncludedEndpoints :
                          a \in Range(event.endpoints[i].addresses)
                             => event.endpoints[i].target_ref = None
                    /\ a \notin DOMAIN call.hostname_map

\* C8 for the events whose included endpoints all have a workload reference
LabelsWhenReferenced ==
    (\A i \in IncludedEndpoints : event.endpoints[i].target_ref # None)
        => C8_HostnameLabels

\* the steps that end a watch by an error
FailureSteps == {"stream_failed", "event_failed", "update_failed"}

\* C9: when the stream or the processing of an event raises, start() is in
\* the backoff sleep with the list the last returned update_targets assigned;
\* when the sleep returns it is about to open a new watch, with that same list.
C9_FailureKeepsTargets ==
    /\ last \in FailureSteps =>
          /\ pc = "backoff"
          /\ targets = reconciled
          /\ ENABLED Sleep
    /\ last = "slept" =>
          /\ pc = "connecting"
          /\ targets = reconciled
          /\ ENABLED OpenWatch

\* C9, its case: the stream raised after events that left targets in the list
C9_Witness ==
    /\ last = "stream_failed"
    /\ pc = "backoff"
    /\ nEvents = MaxEvents
    /\ targets # <<>>

LoopPositions == {"connecting", "streaming", "backoff"}

\* C10: inside the main loop, only a KeyboardInterrupt leaves it; the end of
\* the stream, a failure to open the watch and an error while consuming an
\* event lead to the backoff sleep, and the sleep to a new connection attempt.
C10_OnlyInterruptLeavesLoop ==
    [][(pc \in LoopPositions) =>
          (/\ pc' \in LoopPositions \/ Interrupt \/ InterruptSleep
           /\ last' \in FailureSteps \cup {"stream_ended", "open_failed"} => pc' = "backoff"
           /\ (pc = "backoff" /\ ~InterruptSleep) => pc' = "connecting")]_vars

\* C10, its case: the stream has ended without error and start() sleeps
C10_Witness ==
    /\ last = "stream_ended"
    /\ pc = "backoff"
    /\ nEvents > 0

\* C11: a KeyboardInterrupt, while the watch is opened or read and during the
\* backoff sleep alike, ends start() by the break of line 141 (start returns
\* normally), after which no watch is opened.
C11_InterruptStopsCleanly ==
    last = "interrupt" => pc = "stopped"

\* C11 for a KeyboardInterrupt inside the try statement
InterruptInTryStopsCleanly ==
    [][(pc \in {"connecting", "streaming"} /\ last' = "interrupt")
          => pc' = "stopped"]_vars

\* C12: an event that is no dict, or whose object is no EndpointSlice, is
\* dropped: update_targets is not called, the list is unchanged and start()
\* keeps reading the same stream; the event after it is processed as any other.
C12_MalformedEventDiscarded ==
    [][(nEvents' = nEvents + 1) =>
          (/\ (~event'.is_dict \/ event'.kind # "EndpointSlice") =>
                 (/\ last' = "discarded"
                  /\ pc' = "streaming"
                  /\ targets' = targets
                  /\ call' = call
                  /\ reconciled' = reconciled)
           /\ (last = "discarded" /\ event'.is_dict /\ event'.kind = "EndpointSlice") =>
                 (/\ last' \in {"reconciled", "event_failed", "update_failed"}
                  /\ last' = "reconciled" =>
                        (call'.owner = event'.name /\ call'.before = targets)))]_vars

\* C12, its case: a dict event of another kind was dropped while the list
\* holds targets
C12_Witness ==
    /\ last = "discarded"
    /\ pc = "streaming"
    /\ event.is_dict
    /\ event.kind = "Status"
    /\ targets # <<>>

WellConfigured(cfg) ==
    /\ cfg.namespace # ""
    /\ cfg.service_name # ""
    /\ cfg.dst_port # 0
    /\ DOMAIN cfg.target_options # {}
    /\ "groups" \in DOMAIN cfg.target_options
    /\ cfg.target_options["groups"] # <<>>

StillPresent ==
    {i \in DOMAIN call.before :
        /\ call.before[i]["owner"] = call.owner
        /\ call.before[i]["destination"] \in call.addresses}

\* the targets of the list before the last call that the call has to keep
KeptBefore ==
    SelectSeq(call.before, LAMBDA target :
        target["owner"] # call.owner \/ target["destination"] \in call.addresses)

\* C18: a target of the reconciled owner whose destination is still in the
\* address set is in the new list with every field as before, hostname
\* included, and no target is built again for its address.
C18_KeptTargetsUnchanged ==
    last = "reconciled" =>
        /\ \A i \in StillPresent : \E j \in DOMAIN targets : targets[j] = call.before[i]
        /\ Len(targets) = Len(KeptBefore)
              + Cardinality(call.addresses
                    \ {call.before[i]["destination"] : i \in StillPresent})

\* C18, its case: the event gives a kept address another label than its
\* target has
C18_Witness ==
    /\ last = "reconciled"
    /\ \E i \in StillPresent :
          /\ call.before[i]["destination"] \in DOMAIN call.hostname_map
          /\ call.hostname_map[call.before[i]["destination"]] # call.before[i]["hostname"]

\* C19: after a reconciliation the list is the kept targets, in the order they
\* had, followed by the new ones.
C19_RetainedThenNew ==
    last = "reconciled" =>
        /\ Len(targets) >= Len(KeptBefore)
        /\ SubSeq(targets, 1, Len(KeptBefore)) = KeptBefore
        /\ \A j \in (Len(KeptBefore) + 1) .. Len(targets) :
              targets[j]["description"] \in
                 {call.owner \o " - " \o a : a \in call.addresses \ 
                     {call.before[i]["destination"] : i \in StillPresent}}

\* C19, its case: the call kept targets and appended new ones
C19_Witness ==
    /\ last = "reconciled"
    /\ KeptBefore # <<>>
    /\ Len(targets) > Len(KeptBefore)


\* C16: after any sequence of events none of whose processing has raised, for
\* every owner the destinations of that owner's targets in the shared list are
\* the address set of the most recent EndpointSlice event for that owner
\* (empty for a DELETED event, empty when no event for that owner was seen).
C16_LatestEventDecides ==
    ~failed => \A o \in Owners : OwnerDestinations(targets, o) = desired[o]

\* C16 where the overlay has no destination and no owner key
LatestEventDecidesWithoutIdentityOverride ==
    IdentityKept => C16_LatestEventDecides

\* the case of C16 that holds: two events of two owners, the later a deletion
LatestEventDecidesCase ==
    /\ IdentityKept
    /\ ~failed
    /\ nEvents = 2
    /\ \E o \in Owners : desired[o] # {} /\ o # event.name
    /\ event.type = "DELETED"


\* C17: once start() has an open watch again after a failure of the stream and
\* has processed the events the reopened stream lists for every slice that
\* exists, the shared list holds targets only of owners whose slice exists: the
\* targets of a slice deleted while no watch was open are gone.
C17_FreshAfterReconnect ==
    (pc = "streaming" /\ unlisted = {}) =>
        \A i \in DOMAIN targets : targets[i]["owner"] \in existing

\* while every deletion is reported by an open watch, the list holds no target
\* of a slice that does not exist: a step that leaves a target without its
\* slice is a deletion made with no watch open, or a failed event
FreshWhileWatched ==
    [][(/\ \A i \in DOMAIN targets : targets[i]["owner"] \in existing
        /\ unlisted = {}
        /\ \E i \in DOMAIN targets' : targets'[i]["owner"] \notin existing')
       => (\/ pc \in {"connecting", "backoff"}
           \/ failed')]_allvars


\* C14: a list object that is in the slot of the registry, or that a reader
\* obtained from it, is never changed; the slot changes only at the end of a
\* reconciliation and then holds the complete list of that reconciliation
\* (every removal and every addition applied to the list of before).  So a
\* reader sees the complete list of before or the complete list of after.
C14_ReplacedNeverMutated ==
    [][/\ \A id \in DOMAIN heap : (id = slot \/ id = held) => heap'[id] = heap[id]
       /\ (slot' # slot \/ heap'[slot'] # heap[slot]) =>
            /\ work.active
            /\ ~work'.active
            /\ heap'[slot'] \in UpdatedTargets(heap[slot], config, work.owner,
                                                work.addresses, work.hostname_map)
       /\ targets' = heap'[slot']]_allvars

\* C14, its case: the reader holds the list of the slot, which has a target,
\* while update_targets is between two iterations of its loop with a different
\* list built so far
C14_Witness ==
    /\ work.active
    /\ held = slot
    /\ heap[slot] # <<>>
    /\ work.pending # {}
    /\ heap[work.id] # heap[slot]

\* C14, the case after line 102: the reader still holds the list of before,
\* which differs from the list now in the slot
ReaderHoldsReplacedList ==
    /\ held # 0
    /\ held # slot
    /\ heap[held] # <<>>
    /\ heap[held] # heap[slot]

====
